---- MODULE Spec2Model ----
(***************************************************************************)
(* Dependency resolution and source assembly of wgsl-fns.                  *)
(*                                                                         *)
(* The registry wgslFns maps function names to WGSL source text.  A text   *)
(* may carry a magic comment "//! requires n1 n2 ..." naming the functions *)
(* it calls.  getFns(functionNames) resolves the declared dependencies of  *)
(* the requested names, looks every needed name up in the registry and     *)
(* joins the source texts with a blank line.                               *)
(*                                                                         *)
(* Texts and names are sequences of one-character strings, so that the     *)
(* regular expression of parseDependencies, String.split and Array.join    *)
(* are modelled on characters.                                             *)
(***************************************************************************)
EXTENDS Integers, Sequences, FiniteSets, TLC

(***************************************************************************)
(* Bounds of the exploration.                                              *)
(***************************************************************************)
\* longest request list handed to getFns
MaxReq == 2
\* largest number of dependency names declared in a registry, all texts together
MaxEdges == 2
\* largest number of getFns calls made one after the other
MaxCalls == 2

(***************************************************************************)
(* Characters and strings.                                                 *)
(***************************************************************************)
\* the characters matched by \s that occur in the modelled texts
IsSpace(ch) == ch \in {" ", "\t", "\n"}

\* the line terminators: "." does not match them, "^" and "$" anchor at them
IsLineTerminator(ch) == ch = "\n"

\* "//!"
MagicPrefix == <<"/", "/", "!">>

\* "requires"
RequiresKeyword == <<"r", "e", "q", "u", "i", "r", "e", "s">>

\* the separator of functions.join('\n\n')
Separator == <<"\n", "\n">>

\* does the string w occur in s at position p
StartsWithAt(s, p, w) ==
  /\ p >= 1
  /\ p + Len(w) - 1 <= Len(s)
  /\ \A x \in 1..Len(w) : s[p + x - 1] = w[x]

\* first position >= p of s that holds no white space (Len(s) + 1 if none)
RECURSIVE SkipSpace(_, _)
SkipSpace(s, p) ==
  IF p <= Len(s) /\ IsSpace(s[p]) THEN SkipSpace(s, p + 1) ELSE p

\* first position >= p of s that holds a line terminator (Len(s) + 1 if none)
RECURSIVE LineEnd(_, _)
LineEnd(s, p) ==
  IF p <= Len(s) /\ ~IsLineTerminator(s[p]) THEN LineEnd(s, p + 1) ELSE p

(***************************************************************************)
(* parseDependencies: /^\/\/!\s*requires\s+(.+)$/m, then split and filter. *)
(***************************************************************************)
\* Where the group (.+) starts when \s+ begins at position r: \s+ is greedy
\* and gives characters back one at a time until "." can match; 0 = no match.
RECURSIVE CaptureStart(_, _, _)
CaptureStart(s, r, e) ==
  IF e <= r THEN 0
  ELSE IF e <= Len(s) /\ ~IsLineTerminator(s[e]) THEN e
  ELSE CaptureStart(s, r, e - 1)

\* The match of the regular expression attempted at position p of s:
\* <<1, capture start, capture end + 1>> if it matches, <<0, 0, 0>> if not.
MatchAt(s, p) ==
  IF ~((p = 1 \/ IsLineTerminator(s[p - 1])) /\ StartsWithAt(s, p, MagicPrefix))
  THEN <<0, 0, 0>>
  ELSE LET q == SkipSpace(s, p + Len(MagicPrefix))
       IN  IF ~StartsWithAt(s, q, RequiresKeyword) THEN <<0, 0, 0>>
           ELSE LET r == q + Len(RequiresKeyword)
                    e == CaptureStart(s, r, SkipSpace(s, r))
                IN  IF e = 0 THEN <<0, 0, 0>> ELSE <<1, e, LineEnd(s, e)>>

\* String.prototype.match without the g flag: the leftmost match
RECURSIVE FirstMatch(_, _)
FirstMatch(s, p) ==
  IF p > Len(s) THEN <<0, 0, 0>>
  ELSE IF MatchAt(s, p)[1] = 1 THEN MatchAt(s, p)
  ELSE FirstMatch(s, p + 1)

\* String.prototype.split(/\s+/): the pieces between runs of white space,
\* empty pieces at the two ends included
RECURSIVE SplitFrom(_, _, _)
SplitFrom(s, p, piece) ==
  IF p > Len(s) THEN <<piece>>
  ELSE IF IsSpace(s[p]) THEN <<piece>> \o SplitFrom(s, SkipSpace(s, p), <<>>)
  ELSE SplitFrom(s, p + 1, Append(piece, s[p]))

Split(s) == SplitFrom(s, 1, <<>>)

NonEmpty(dep) == Len(dep) > 0

parseDependencies(functionCode) ==
  LET magicCommentMatch == FirstMatch(functionCode, 1)
  IN  IF magicCommentMatch[1] = 0 THEN <<>>
      ELSE SelectSeq(Split(SubSeq(functionCode, magicCommentMatch[2],
                                  magicCommentMatch[3] - 1)),
                     NonEmpty)

(***************************************************************************)
(* The registries and the request lists that are explored.                 *)
(***************************************************************************)
\* the names a registry may define, in alphabetical order
NameOrder == <<<<"a">>, <<"b">>, <<"c">>>>

\* the names a registry may define
Names == {NameOrder[n] : n \in 1..Len(NameOrder)}

\* a name that no registry defines
Ghost == <<"z">>

\* the names that occur in requests and in dependency declarations
Tokens == Names \cup {Ghost}

\* join(list, " ")
RECURSIVE Spaced(_)
Spaced(list) ==
  IF list = <<>> THEN <<>>
  ELSE IF Len(list) = 1 THEN list[1]
  ELSE list[1] \o <<" ">> \o Spaced(Tail(list))

\* The source text of function name that calls the functions named in deps,
\* laid out as the texts of the repository are: an optional magic comment
\* on the first line and the WGSL function after it.
FunctionCode(name, deps) ==
  (IF deps = <<>> THEN <<>>
   ELSE MagicPrefix \o <<" ">> \o RequiresKeyword \o <<" ">> \o Spaced(deps) \o <<"\n">>)
  \o <<"f", "n", " ">> \o name \o <<"(", ")", "{", "}">>

\* the lists of at most n tokens
DepLists(n) == UNION {[1..len -> Tokens] : len \in 0..n}

\* The registries over the names in S that declare at most n dependency
\* names in all: every name of S is either left out or given a text.
RECURSIVE RegistriesOver(_, _)
RegistriesOver(S, n) ==
  IF S = {} THEN {<<>>}
  ELSE LET name == CHOOSE x \in S : TRUE
       IN  RegistriesOver(S \ {name}, n)
           \cup UNION {{(name :> FunctionCode(name, deps)) @@ rest :
                           rest \in RegistriesOver(S \ {name}, n - Len(deps))} :
                       deps \in DepLists(n)}

\* the number of dependency names declared in registry r
RECURSIVE Edges(_, _)
Edges(r, S) ==
  IF S = {} THEN 0
  ELSE LET name == CHOOSE x \in S : TRUE
       IN  Len(parseDependencies(r[name])) + Edges(r, S \ {name})

\* the registries in which one name has the very text of another name
Copies ==
  UNION {{(x :> r[y]) @@ r :
            r \in {q \in RegistriesOver(Names \ {x}, MaxEdges) :
                     IF y \in DOMAIN q
                     THEN Edges(q, DOMAIN q) + Len(parseDependencies(q[y])) <= MaxEdges
                     ELSE FALSE}} :
         <<x, y>> \in {pair \in Names \X Names : pair[1] # pair[2]}}

\* the registries of the exploration
Registries == RegistriesOver(Names, MaxEdges) \cup Copies

\* The registries are the same up to a renaming of a, b and c, so it is
\* enough to request the names in alphabetical order of first occurrence.
Canonical(names) ==
  \A p \in 1..Len(names) :
    names[p] # Ghost =>
      LET used == {names[q] : q \in 1..(p - 1)} \ {Ghost}
      IN  names[p] \in used \/ names[p] = NameOrder[Cardinality(used) + 1]

\* the request lists
Requests ==
  {names \in UNION {[1..len -> Tokens] : len \in 0..MaxReq} : Canonical(names)}

\* the registry in which x, y and z declare the dependencies dx, dy and dz
Registry(x, dx, y, dy, z, dz) ==
  (x :> FunctionCode(x, dx)) @@ (y :> FunctionCode(y, dy)) @@ (z :> FunctionCode(z, dz))

\* a chain, a shared dependency, a cycle, a missing dependency and a
\* dependency that is met twice, on the names x, y and z
Shapes(x, y, z) ==
  { Registry(x, <<y>>, y, <<z>>, z, <<>>),
    Registry(x, <<z>>, y, <<z>>, z, <<>>),
    Registry(x, <<y>>, y, <<x>>, z, <<x, y>>),
    Registry(x, <<y, Ghost>>, y, <<>>, z, <<y>>),
    Registry(x, <<y, z>>, y, <<>>, z, <<y>>) }

\* the registries used when several calls are made in a row
SampleRegistries ==
  UNION {Shapes(t[1], t[2], t[3]) :
           t \in {u \in Names \X Names \X Names : Cardinality({u[1], u[2], u[3]}) = 3}}

\* a function that requires itself, once and twice, a cycle of two names
\* entered from a third, a cycle of three names, three functions that
\* each require all three, and a cycle of two names beside a function with
\* the text of one of them, on the names x, y and z
CycleShapes(x, y, z) ==
  { Registry(x, <<x>>, y, <<>>, z, <<>>),
    Registry(x, <<x, x>>, y, <<x>>, z, <<>>),
    Registry(x, <<y>>, y, <<z>>, z, <<y>>),
    Registry(x, <<y>>, y, <<z>>, z, <<x>>),
    Registry(x, <<x, y, z>>, y, <<x, y, z>>, z, <<x, y, z>>),
    (x :> FunctionCode(x, <<y>>)) @@ (y :> FunctionCode(y, <<x>>))
      @@ (z :> FunctionCode(x, <<y>>)) }

\* the sample registries and the registries with cycles
CyclicRegistries ==
  SampleRegistries
  \cup UNION {CycleShapes(t[1], t[2], t[3]) :
                t \in {u \in Names \X Names \X Names : Cardinality({u[1], u[2], u[3]}) = 3}}

\* a fourth name, for the registries that need one
Fourth == <<"d">>

\* the diamond: x requires y and z, which both require the fourth name
Diamonds ==
  {(t[1] :> FunctionCode(t[1], <<t[2], t[3]>>))
     @@ (t[2] :> FunctionCode(t[2], <<Fourth>>))
     @@ (t[3] :> FunctionCode(t[3], <<Fourth>>))
     @@ (Fourth :> FunctionCode(Fourth, <<>>)) :
   t \in {u \in Names \X Names \X Names : Cardinality({u[1], u[2], u[3]}) = 3}}

\* the white space that may follow the keyword on a marker line
Gaps == {<<>>, <<" ">>, <<"\t">>}

\* The source text of function name whose magic comment names no function:
\* the keyword, the white space gap, and the WGSL function on the next line.
BareMarkerCode(name, gap) ==
  MagicPrefix \o <<" ">> \o RequiresKeyword \o gap \o <<"\n">>
  \o <<"f", "n", " ">> \o name \o <<"(", ")", "{", "}">>

\* registries on the names x, y and z in which the magic comment of x
\* names no function: alone, required twice by y, and requiring nothing
\* beside a chain from z to y
BareMarkerShapes(x, y, z, gap) ==
  { (x :> BareMarkerCode(x, gap)),
    (x :> BareMarkerCode(x, gap)) @@ (y :> FunctionCode(y, <<x, x>>))
      @@ (z :> FunctionCode(z, <<>>)),
    (x :> BareMarkerCode(x, gap)) @@ (y :> FunctionCode(y, <<>>))
      @@ (z :> FunctionCode(z, <<y>>)) }

\* join(list, sep)
RECURSIVE Separated(_, _)
Separated(list, sep) ==
  IF list = <<>> THEN <<>>
  ELSE IF Len(list) = 1 THEN list[1]
  ELSE list[1] \o sep \o Separated(Tail(list), sep)

\* the WGSL function of a text, without a magic comment
Body(name) == <<"f", "n", " ">> \o name \o <<"(", ")", "{", "}">>

\* The white space of a magic comment: after the prefix, after the keyword,
\* between two names and after the last name.
Layouts ==
  { [lead |-> <<>>, gap |-> <<" ">>, sep |-> <<" ", " ">>, trail |-> <<>>],
    [lead |-> <<"\t">>, gap |-> <<"\t">>, sep |-> <<" ", "\t">>, trail |-> <<" ">>],
    [lead |-> <<" ">>, gap |-> <<" ", " ">>, sep |-> <<" ">>, trail |-> <<"\t", " ">>] }

\* the magic comment that names deps, laid out as layout says
MarkerLine(layout, deps) ==
  MagicPrefix \o layout.lead \o RequiresKeyword \o layout.gap
  \o Separated(deps, layout.sep) \o layout.trail

\* a plain comment line that may stand above the magic comment
Above == {<<>>, <<"/", "/", " ", "x", "\n">>}

\* the texts of function x whose magic comment names y, or y and z, in the
\* layouts above
LaidOutCodes(x, y, z) ==
  {above \o MarkerLine(layout, deps) \o <<"\n">> \o Body(x) :
     above \in Above, layout \in Layouts, deps \in {<<y>>, <<y, z>>, <<z, y>>}}

\* the texts of function x that name y but have no line the regular
\* expression is written for: a plain comment, an indented magic comment,
\* a magic comment after the function, a keyword run into the name, another
\* keyword, and the prefix and the keyword on two lines
UnmarkedCodes(x, y) ==
  { Body(x),
    <<"/", "/", " ">> \o RequiresKeyword \o <<" ">> \o y \o <<"\n">> \o Body(x),
    <<" ">> \o FunctionCode(x, <<y>>),
    Body(x) \o <<" ">> \o MagicPrefix \o <<" ">> \o RequiresKeyword \o <<" ">> \o y,
    MagicPrefix \o <<" ">> \o RequiresKeyword \o y \o <<"\n">> \o Body(x),
    MagicPrefix \o <<" ", "r", "e", "q", "u", "i", "r", "e", " ">> \o y \o <<"\n">> \o Body(x),
    MagicPrefix \o <<"\n">> \o RequiresKeyword \o <<" ">> \o y \o <<"\n">> \o Body(x) }

\* the texts of function x with two magic comments, the first for y and the
\* second for z: one after the other, the function between them, and both
\* below a magic comment that names no function
TwoMarkerCodes(x, y, z) ==
  LET markerY == MagicPrefix \o <<" ">> \o RequiresKeyword \o <<" ">> \o y
      markerZ == MagicPrefix \o <<" ">> \o RequiresKeyword \o <<" ">> \o z
      bare == MagicPrefix \o <<" ">> \o RequiresKeyword
  IN  { markerY \o <<"\n">> \o markerZ \o <<"\n">> \o Body(x),
        markerY \o <<"\n">> \o Body(x) \o <<"\n">> \o markerZ,
        markerY \o <<" ">> \o z \o <<"\n">> \o markerZ \o <<" ">> \o y \o <<"\n">> \o Body(x),
        bare \o <<"\n">> \o markerY \o <<"\n">> \o markerZ \o <<"\n">> \o Body(x) }

\* registries on the names x, y and z in which the text of x is one of the
\* texts above and y and z have no dependencies
UnusualShapes(x, y, z) ==
  {(x :> fn) @@ (y :> FunctionCode(y, <<>>)) @@ (z :> FunctionCode(z, <<>>)) :
     fn \in LaidOutCodes(x, y, z) \cup UnmarkedCodes(x, y) \cup TwoMarkerCodes(x, y, z)}

\* registries on the names x, y and z in which x is registered with the
\* empty string: x alone, beside y and z, required by y, and at the end of
\* a chain from z
EmptyTextShapes(x, y, z) ==
  { (x :> <<>>),
    (x :> <<>>) @@ (y :> FunctionCode(y, <<>>)) @@ (z :> FunctionCode(z, <<>>)),
    (x :> <<>>) @@ (y :> FunctionCode(y, <<x>>)) @@ (z :> FunctionCode(z, <<>>)),
    (x :> <<>>) @@ (y :> FunctionCode(y, <<x>>)) @@ (z :> FunctionCode(z, <<y>>)) }

\* the registries used to follow the parsing of unusual texts
TextRegistries ==
  UNION {UNION {BareMarkerShapes(t[1], t[2], t[3], gap) : gap \in Gaps}
           \cup UnusualShapes(t[1], t[2], t[3])
           \cup EmptyTextShapes(t[1], t[2], t[3]) :
           t \in {u \in Names \X Names \X Names : Cardinality({u[1], u[2], u[3]}) = 3}}

(***************************************************************************)
(* The state.                                                              *)
(***************************************************************************)
VARIABLES
  wgslFns,          \* the registry: name -> source text
  pc,               \* where the running getFns call is
  callsLeft,        \* how many more calls the caller makes
  first,            \* the first call that finished, with its outcome
  functionNames,    \* the argument of getFns
  i,                \* resolveAllDependencies: index of the for loop
  allDeps,          \* resolveAllDependencies: the Set, in insertion order
  resolved,         \* resolveDependencies: the Set of visited names
  stack,            \* resolveDependencies: the frames of the recursion
  dependencies,     \* getFns: what resolveAllDependencies returned
  allFunctionNames, \* getFns: the names to look up, in order
  j,                \* getFns: index of the for loop
  seen,             \* getFns: the Set of texts already pushed
  functions,        \* getFns: the texts to join
  result,           \* the string a call returned
  error,            \* the message of the error a call threw
  expanded,         \* per resolveDependencies call of resolveAllDependencies:
                    \* the names whose dependencies were fetched, in order
  steps             \* how many steps the running call has taken

vars == <<wgslFns, pc, callsLeft, first, functionNames, i, allDeps, resolved,
          stack, dependencies, allFunctionNames, j, seen, functions, result,
          error, expanded, steps>>

(***************************************************************************)
(* Helpers of the code.                                                    *)
(***************************************************************************)
\* Array.prototype.includes
Includes(list, x) == \E n \in 1..Len(list) : list[n] = x

\* Falsy that takes the empty string for a text
FalsyUndefinedOnly(name) == name \notin DOMAIN wgslFns

\* !wgslFns[name]: the name is not a key, or its text is the empty string
Falsy(name) == IF name \in DOMAIN wgslFns THEN wgslFns[name] = <<>> ELSE TRUE

\* getDirectDependencies that leaves out the names the registry lacks
getDirectDependenciesKnownOnly(functionName) ==
  LET Known(dep) == ~Falsy(dep)
  IN  IF Falsy(functionName) THEN <<>>
      ELSE SelectSeq(parseDependencies(wgslFns[functionName]), Known)

getDirectDependencies(functionName) ==
  IF Falsy(functionName) THEN <<>> ELSE parseDependencies(wgslFns[functionName])

\* one resolved Set kept from a resolveDependencies call to the next
SharedResolved == resolved

\* `resolved: Set<string> = new Set()`: the default of the second parameter
NewResolved == {}

\* Frame whose loop takes the dependencies from right to left
FrameReversed(functionName) ==
  LET deps == getDirectDependencies(functionName)
  IN  [functionName |-> functionName,
       deps |-> [n \in 1..Len(deps) |-> deps[Len(deps) + 1 - n]],
       allDeps |-> <<>>,
       k |-> 1]

\* the frame of a resolveDependencies call that got past the resolved check
Frame(functionName) ==
  [functionName |-> functionName,
   deps |-> getDirectDependencies(functionName),
   allDeps |-> <<>>,
   k |-> 1]

\* PushDep without allDeps.push(...returned): only the direct dependency
PushDepDirectOnly(list, returned, dep) ==
  IF Includes(list, dep) THEN list ELSE Append(list, dep)

\* PushDep with the dep pushed before the names the recursive call returned
PushDepParentFirst(list, returned, dep) ==
  LET pushed == IF Includes(list, dep) THEN list ELSE Append(list, dep)
  IN  pushed \o returned

\* allDeps.push(...returned); if (!allDeps.includes(dep)) allDeps.push(dep)
PushDep(list, returned, dep) ==
  LET pushed == list \o returned
  IN  IF Includes(pushed, dep) THEN pushed ELSE Append(pushed, dep)

\* AddAll that leaves the requested names out of the Set
RECURSIVE AddAllNotRequested(_, _)
AddAllNotRequested(set, deps) ==
  IF deps = <<>> THEN set
  ELSE AddAllNotRequested(IF Includes(set, Head(deps)) \/ Includes(functionNames, Head(deps))
                          THEN set
                          ELSE Append(set, Head(deps)),
                          Tail(deps))

\* AddAll on an array in place of the Set: every name is appended
AddAllRepeated(set, deps) == set \o deps

\* deps.forEach(dep => allDeps.add(dep)) on a Set kept in insertion order
RECURSIVE AddAll(_, _)
AddAll(set, deps) ==
  IF deps = <<>> THEN set
  ELSE AddAll(IF Includes(set, Head(deps)) THEN set ELSE Append(set, Head(deps)),
              Tail(deps))

\* Combined with the remaining requested names in reverse order
CombinedRestReversed(deps, names) ==
  LET NotDep(name) == ~Includes(deps, name)
      rest == SelectSeq(names, NotDep)
  IN  deps \o [n \in 1..Len(rest) |-> rest[Len(rest) + 1 - n]]

\* Combined with the requested names ahead of their dependencies
CombinedRequestedFirst(deps, names) ==
  LET NotRequested(name) == ~Includes(names, name)
  IN  names \o SelectSeq(deps, NotRequested)

\* [...dependencies, ...functionNames.filter(name => !dependencies.includes(name))]
Combined(deps, names) ==
  LET NotDep(name) == ~Includes(deps, name)
  IN  deps \o SelectSeq(names, NotDep)

\* Join with a single line feed between the elements
RECURSIVE JoinOneLineFeed(_)
JoinOneLineFeed(list) ==
  IF list = <<>> THEN <<>>
  ELSE IF Len(list) = 1 THEN list[1]
  ELSE list[1] \o <<"\n">> \o JoinOneLineFeed(Tail(list))

\* Join with the separator after every element, the last one included
RECURSIVE JoinTerminated(_)
JoinTerminated(list) ==
  IF list = <<>> THEN <<>>
  ELSE list[1] \o Separator \o JoinTerminated(Tail(list))

\* Array.prototype.join('\n\n')
RECURSIVE Join(_)
Join(list) ==
  IF list = <<>> THEN <<>>
  ELSE IF Len(list) = 1 THEN list[1]
  ELSE list[1] \o Separator \o Join(Tail(list))

\* `WGSL function "${name}" not found`
NotFound(name) ==
  <<"W", "G", "S", "L", " ", "f", "u", "n", "c", "t", "i", "o", "n", " ", "\"">>
  \o name \o <<"\"", " ", "n", "o", "t", " ", "f", "o", "u", "n", "d">>

(***************************************************************************)
(* Initial states.                                                         *)
(***************************************************************************)
Locals ==
  /\ pc = "idle"
  /\ first = <<>>
  /\ functionNames = <<>>
  /\ i = 1
  /\ allDeps = <<>>
  /\ resolved = {}
  /\ stack = <<>>
  /\ dependencies = <<>>
  /\ allFunctionNames = <<>>
  /\ j = 1
  /\ seen = {}
  /\ functions = <<>>
  /\ result = <<>>
  /\ error = <<>>
  /\ expanded = <<>>
  /\ steps = 0

\* one call on any registry
Init ==
  /\ wgslFns \in Registries \cup CyclicRegistries \cup Diamonds
  /\ callsLeft = 1
  /\ Locals

\* several calls in a row on one of the sample registries
InitCalls ==
  /\ wgslFns \in SampleRegistries
  /\ callsLeft = MaxCalls
  /\ Locals

\* one call on a registry with unusual texts
InitTexts ==
  /\ wgslFns \in TextRegistries
  /\ callsLeft = 1
  /\ Locals

(***************************************************************************)
(* getFns, resolveAllDependencies and resolveDependencies, step by step.   *)
(***************************************************************************)
\* getFns(names) is called; it calls resolveAllDependencies(names) at once,
\* which creates its Set
Call(names) ==
  /\ pc = "idle"
  /\ steps' = 0
  /\ callsLeft > 0
  /\ callsLeft' = callsLeft - 1
  /\ functionNames' = names
  /\ allDeps' = <<>>
  /\ i' = 1
  /\ pc' = "resolveAll"
  /\ expanded' = <<>>
  /\ UNCHANGED <<wgslFns, first, resolved, stack, dependencies, allFunctionNames,
                 j, seen, functions, result, error>>

\* ResolveRequested that resolves the first requested name only
ResolveRequestedFirstOnly ==
  /\ pc = "resolveAll"
  /\ steps' = steps + 1
  /\ i <= Len(functionNames)
  /\ LET functionName == functionNames[i]
         fresh == NewResolved
     IN  IF i > 1
         THEN /\ resolved' = fresh
              /\ i' = i + 1
              /\ expanded' = Append(expanded, <<>>)
              /\ UNCHANGED <<pc, stack>>
         ELSE /\ resolved' = fresh \cup {functionName}
              /\ stack' = <<Frame(functionName)>>
              /\ expanded' = Append(expanded, <<functionName>>)
              /\ pc' = "resolve"
              /\ UNCHANGED i
  /\ UNCHANGED <<wgslFns, callsLeft, first, functionNames, allDeps, dependencies,
                 allFunctionNames, j, seen, functions, result, error>>

\* resolveAllDependencies: resolveDependencies(functionName) for the next
\* requested name, with a new resolved Set
ResolveRequested ==
  /\ pc = "resolveAll"
  /\ steps' = steps + 1
  /\ i <= Len(functionNames)
  /\ LET functionName == functionNames[i]
         fresh == NewResolved
     IN  IF functionName \in fresh
         THEN \* return []
              /\ resolved' = fresh
              /\ i' = i + 1
              /\ expanded' = Append(expanded, <<>>)
              /\ UNCHANGED <<pc, stack>>
         ELSE /\ resolved' = fresh \cup {functionName}
              /\ stack' = <<Frame(functionName)>>
              /\ expanded' = Append(expanded, <<functionName>>)
              /\ pc' = "resolve"
              /\ UNCHANGED i
  /\ UNCHANGED <<wgslFns, callsLeft, first, functionNames, allDeps, dependencies,
                 allFunctionNames, j, seen, functions, result, error>>

\* Descend without the resolved.has check: every dep is expanded
DescendUnchecked ==
  /\ pc = "resolve"
  /\ steps' = steps + 1
  /\ LET top == stack[Len(stack)]
     IN  /\ top.k <= Len(top.deps)
         /\ resolved' = resolved \cup {top.deps[top.k]}
         /\ stack' = Append(stack, Frame(top.deps[top.k]))
         /\ expanded' = [expanded EXCEPT ![Len(expanded)] = Append(@, top.deps[top.k])]
  /\ UNCHANGED <<wgslFns, pc, callsLeft, first, functionNames, i, allDeps,
                 dependencies, allFunctionNames, j, seen, functions, result,
                 error>>

\* Descend that throws for a dep the registry has no text for
DescendRejectsAbsent ==
  /\ pc = "resolve"
  /\ steps' = steps + 1
  /\ LET top == stack[Len(stack)]
     IN  /\ top.k <= Len(top.deps)
         /\ top.deps[top.k] \notin resolved
         /\ IF Falsy(top.deps[top.k])
            THEN /\ error' = NotFound(top.deps[top.k])
                 /\ pc' = "thrown"
                 /\ UNCHANGED <<resolved, stack, expanded>>
            ELSE /\ resolved' = resolved \cup {top.deps[top.k]}
                 /\ stack' = Append(stack, Frame(top.deps[top.k]))
                 /\ expanded' = [expanded EXCEPT ![Len(expanded)] = Append(@, top.deps[top.k])]
                 /\ UNCHANGED <<pc, error>>
  /\ UNCHANGED <<wgslFns, callsLeft, first, functionNames, i, allDeps,
                 dependencies, allFunctionNames, j, seen, functions, result>>

\* resolveDependencies, for loop: the next dep is not in resolved, the
\* recursive call marks it and reads its dependencies
Descend ==
  /\ pc = "resolve"
  /\ steps' = steps + 1
  /\ LET top == stack[Len(stack)]
     IN  /\ top.k <= Len(top.deps)
         /\ top.deps[top.k] \notin resolved
         /\ resolved' = resolved \cup {top.deps[top.k]}
         /\ stack' = Append(stack, Frame(top.deps[top.k]))
         /\ expanded' = [expanded EXCEPT ![Len(expanded)] = Append(@, top.deps[top.k])]
  /\ UNCHANGED <<wgslFns, pc, callsLeft, first, functionNames, i, allDeps,
                 dependencies, allFunctionNames, j, seen, functions, result,
                 error>>

\* SkipResolved that takes a name met again for an error
SkipResolvedThrows ==
  /\ pc = "resolve"
  /\ steps' = steps + 1
  /\ LET top == stack[Len(stack)]
     IN  /\ top.k <= Len(top.deps)
         /\ top.deps[top.k] \in resolved
         /\ error' = NotFound(top.deps[top.k])
  /\ pc' = "thrown"
  /\ UNCHANGED <<expanded, wgslFns, callsLeft, first, functionNames, i, allDeps,
                 resolved, stack, dependencies, allFunctionNames, j, seen,
                 functions, result>>

\* resolveDependencies, for loop: the next dep is in resolved, the recursive
\* call returns [] and the dep is pushed unless the list includes it
SkipResolved ==
  /\ pc = "resolve"
  /\ steps' = steps + 1
  /\ LET n == Len(stack)
         top == stack[n]
     IN  /\ top.k <= Len(top.deps)
         /\ top.deps[top.k] \in resolved
         /\ stack' = [stack EXCEPT ![n].allDeps = PushDep(@, <<>>, top.deps[top.k]),
                                   ![n].k = @ + 1]
  /\ UNCHANGED <<expanded, wgslFns, pc, callsLeft, first, functionNames, i, allDeps,
                 resolved, dependencies, allFunctionNames, j, seen, functions,
                 result, error>>

\* resolveDependencies returns allDeps to the resolveDependencies that
\* called it, which pushes the returned names and then the dep
ReturnInner ==
  /\ pc = "resolve"
  /\ steps' = steps + 1
  /\ Len(stack) > 1
  /\ LET n == Len(stack)
         top == stack[n]
         caller == stack[n - 1]
     IN  /\ top.k > Len(top.deps)
         /\ stack' = [SubSeq(stack, 1, n - 1) EXCEPT
                        ![n - 1].allDeps = PushDep(@, top.allDeps, caller.deps[caller.k]),
                        ![n - 1].k = @ + 1]
  /\ UNCHANGED <<expanded, wgslFns, pc, callsLeft, first, functionNames, i, allDeps,
                 resolved, dependencies, allFunctionNames, j, seen, functions,
                 result, error>>

\* resolveDependencies returns allDeps to resolveAllDependencies, which adds
\* the names to its Set
ReturnOuter ==
  /\ pc = "resolve"
  /\ steps' = steps + 1
  /\ Len(stack) = 1
  /\ stack[1].k > Len(stack[1].deps)
  /\ allDeps' = AddAll(allDeps, stack[1].allDeps)
  /\ stack' = <<>>
  /\ i' = i + 1
  /\ pc' = "resolveAll"
  /\ UNCHANGED <<expanded, wgslFns, callsLeft, first, functionNames, resolved, dependencies,
                 allFunctionNames, j, seen, functions, result, error>>

\* resolveAllDependencies returns Array.from(allDeps); getFns builds the
\* list of names to look up and its empty Set and list
Combine ==
  /\ pc = "resolveAll"
  /\ steps' = steps + 1
  /\ i > Len(functionNames)
  /\ dependencies' = allDeps
  /\ allFunctionNames' = Combined(allDeps, functionNames)
  /\ seen' = {}
  /\ functions' = <<>>
  /\ j' = 1
  /\ pc' = "emit"
  /\ UNCHANGED <<expanded, wgslFns, callsLeft, first, functionNames, i, allDeps, resolved,
                 stack, result, error>>

\* Throw that gives up the loop and returns what was pushed so far
ThrowReturnsPartial ==
  /\ pc = "emit"
  /\ steps' = steps + 1
  /\ j <= Len(allFunctionNames)
  /\ Falsy(allFunctionNames[j])
  /\ result' = Join(functions)
  /\ pc' = "returned"
  /\ UNCHANGED <<expanded, wgslFns, callsLeft, first, functionNames, i, allDeps, resolved,
                 stack, dependencies, allFunctionNames, j, seen, functions,
                 error>>

\* Throw that leaves an empty entry for the name in the registry
ThrowRegistersName ==
  /\ pc = "emit"
  /\ steps' = steps + 1
  /\ j <= Len(allFunctionNames)
  /\ Falsy(allFunctionNames[j])
  /\ wgslFns' = (allFunctionNames[j] :> <<>>) @@ wgslFns
  /\ error' = NotFound(allFunctionNames[j])
  /\ pc' = "thrown"
  /\ UNCHANGED <<expanded, callsLeft, first, functionNames, i, allDeps, resolved,
                 stack, dependencies, allFunctionNames, j, seen, functions,
                 result>>

\* getFns, for loop: the name has no text, the call throws
Throw ==
  /\ pc = "emit"
  /\ steps' = steps + 1
  /\ j <= Len(allFunctionNames)
  /\ Falsy(allFunctionNames[j])
  /\ error' = NotFound(allFunctionNames[j])
  /\ pc' = "thrown"
  /\ UNCHANGED <<expanded, wgslFns, callsLeft, first, functionNames, i, allDeps, resolved,
                 stack, dependencies, allFunctionNames, j, seen, functions,
                 result>>

\* the text without its first line when that line is a magic comment
WithoutMarker(fn) ==
  IF StartsWithAt(fn, 1, MagicPrefix) /\ LineEnd(fn, 1) <= Len(fn)
  THEN SubSeq(fn, LineEnd(fn, 1) + 1, Len(fn))
  ELSE fn

\* Emit that pushes the text without its magic comment
EmitWithoutMarker ==
  /\ pc = "emit"
  /\ steps' = steps + 1
  /\ j <= Len(allFunctionNames)
  /\ ~Falsy(allFunctionNames[j])
  /\ LET fn == WithoutMarker(wgslFns[allFunctionNames[j]])
     IN  IF fn \notin seen
         THEN /\ seen' = seen \cup {fn}
              /\ functions' = Append(functions, fn)
         ELSE UNCHANGED <<seen, functions>>
  /\ j' = j + 1
  /\ UNCHANGED <<expanded, wgslFns, pc, callsLeft, first, functionNames, i, allDeps,
                 resolved, stack, dependencies, allFunctionNames, result, error>>

\* Emit that remembers the names instead of the texts it has pushed
EmitSeenNames ==
  /\ pc = "emit"
  /\ steps' = steps + 1
  /\ j <= Len(allFunctionNames)
  /\ ~Falsy(allFunctionNames[j])
  /\ IF allFunctionNames[j] \notin seen
     THEN /\ seen' = seen \cup {allFunctionNames[j]}
          /\ functions' = Append(functions, wgslFns[allFunctionNames[j]])
     ELSE UNCHANGED <<seen, functions>>
  /\ j' = j + 1
  /\ UNCHANGED <<expanded, wgslFns, pc, callsLeft, first, functionNames, i, allDeps,
                 resolved, stack, dependencies, allFunctionNames, result, error>>

\* Emit without the seen check: every text that is looked up is pushed
EmitUnchecked ==
  /\ pc = "emit"
  /\ steps' = steps + 1
  /\ j <= Len(allFunctionNames)
  /\ ~Falsy(allFunctionNames[j])
  /\ functions' = Append(functions, wgslFns[allFunctionNames[j]])
  /\ j' = j + 1
  /\ UNCHANGED <<expanded, wgslFns, pc, callsLeft, first, functionNames, i, allDeps,
                 resolved, stack, dependencies, allFunctionNames, seen, result,
                 error>>

\* getFns, for loop: the text of the name is pushed unless seen has it
Emit ==
  /\ pc = "emit"
  /\ steps' = steps + 1
  /\ j <= Len(allFunctionNames)
  /\ ~Falsy(allFunctionNames[j])
  /\ LET fn == wgslFns[allFunctionNames[j]]
     IN  IF fn \notin seen
         THEN /\ seen' = seen \cup {fn}
              /\ functions' = Append(functions, fn)
         ELSE UNCHANGED <<seen, functions>>
  /\ j' = j + 1
  /\ UNCHANGED <<expanded, wgslFns, pc, callsLeft, first, functionNames, i, allDeps,
                 resolved, stack, dependencies, allFunctionNames, result, error>>

\* Return that rejects a call for which nothing was pushed
ReturnRejectsEmpty ==
  /\ pc = "emit"
  /\ steps' = steps + 1
  /\ j > Len(allFunctionNames)
  /\ IF functions = <<>>
     THEN /\ error' = NotFound(<<>>)
          /\ pc' = "thrown"
          /\ UNCHANGED result
     ELSE /\ result' = Join(functions)
          /\ pc' = "returned"
          /\ UNCHANGED error
  /\ UNCHANGED <<expanded, wgslFns, callsLeft, first, functionNames, i, allDeps, resolved,
                 stack, dependencies, allFunctionNames, j, seen, functions>>

\* getFns returns functions.join('\n\n')
Return ==
  /\ pc = "emit"
  /\ steps' = steps + 1
  /\ j > Len(allFunctionNames)
  /\ result' = Join(functions)
  /\ pc' = "returned"
  /\ UNCHANGED <<expanded, wgslFns, callsLeft, first, functionNames, i, allDeps, resolved,
                 stack, dependencies, allFunctionNames, j, seen, functions,
                 error>>

\* the caller takes the string or catches the error; the call is over and
\* its variables are gone
Finish ==
  /\ pc \in {"returned", "thrown"}
  /\ steps' = 0
  /\ first' = IF first = <<>>
              THEN <<[functionNames |-> functionNames,
                      threw |-> pc = "thrown",
                      value |-> IF pc = "thrown" THEN error ELSE result,
                      functions |-> functions]>>
              ELSE first
  /\ pc' = "idle"
  /\ functionNames' = <<>>
  /\ i' = 1
  /\ allDeps' = <<>>
  /\ resolved' = {}
  /\ stack' = <<>>
  /\ dependencies' = <<>>
  /\ allFunctionNames' = <<>>
  /\ j' = 1
  /\ seen' = {}
  /\ functions' = <<>>
  /\ result' = <<>>
  /\ error' = <<>>
  /\ expanded' = <<>>
  /\ UNCHANGED <<wgslFns, callsLeft>>

Next ==
  \/ \E names \in Requests : Call(names)
  \/ ResolveRequested
  \/ Descend
  \/ SkipResolved
  \/ ReturnInner
  \/ ReturnOuter
  \/ Combine
  \/ Throw
  \/ Emit
  \/ Return
  \/ Finish

Spec == Init /\ [][Next]_vars

\* the request of the first call with its names in every order
Reorderings ==
  IF first = <<>> THEN {}
  ELSE LET names == first[1].functionNames
           Orders == {order \in [1..Len(names) -> 1..Len(names)] :
                        \A p \in 1..Len(names) : \E q \in 1..Len(names) : order[q] = p}
       IN  {[n \in 1..Len(names) |-> names[order[n]]] : order \in Orders}

\* getFns is called with the names of the first call in another order
Recall ==
  /\ pc = "idle"
  /\ \E names \in Reorderings : Call(names)

NextCalls ==
  \/ Next
  \/ Recall

SpecCalls == InitCalls /\ [][NextCalls]_vars

SpecTexts == InitTexts /\ [][Next]_vars

(***************************************************************************)
(* Vocabulary of the properties.                                           *)
(***************************************************************************)
Range(list) == {list[n] : n \in 1..Len(list)}

\* the texts of the registries that are explored
RegistryTexts ==
  UNION {{r[name] : name \in DOMAIN r} :
           r \in Registries \cup CyclicRegistries \cup Diamonds \cup TextRegistries}

\* the dependency names written in each of these texts, parsed once
DeclaredInText == [functionCode \in RegistryTexts |-> parseDependencies(functionCode)]

\* the dependency names written in the text of name, in order
DeclaredList(name) ==
  IF name \in DOMAIN wgslFns
  THEN IF wgslFns[name] \in RegistryTexts
       THEN DeclaredInText[wgslFns[name]]
       ELSE parseDependencies(wgslFns[name])
  ELSE <<>>

\* the names that the text of name declares as dependencies
Declared(name) == Range(DeclaredList(name))

\* S and every name reachable from S through declared dependencies
RECURSIVE Closure(_)
Closure(S) ==
  LET T == S \cup UNION {Declared(name) : name \in S}
  IN  IF T = S THEN S ELSE Closure(T)

\* the names reachable from name by one or more declared-dependency edges
Reachable(name) == Closure(Declared(name))

\* the requested names and every name reachable from one of them
Needed == Closure(Range(functionNames))

\* the names that some needed function declares as a dependency
NeededDeps == UNION {Declared(name) : name \in Needed}

\* the requested names that have no text
MissingRequested == {name \in Range(functionNames) : Falsy(name)}

\* the declared dependencies of needed functions that have no text
MissingDeps == {name \in NeededDeps : Falsy(name)}

\* no needed name reaches itself
Acyclic == \A name \in Needed : name \notin Reachable(name)

\* every needed name has a text
AllRegistered == \A name \in Needed : ~Falsy(name)

\* the positions at which the string w occurs in the string s
Occurrences(s, w) == {p \in 1..(Len(s) - Len(w) + 1) : StartsWithAt(s, p, w)}

\* the first position at which w occurs in s (w occurs in s)
FirstIndex(s, w) ==
  CHOOSE p \in Occurrences(s, w) : \A o \in Occurrences(s, w) : p <= o

\* the running call has returned or thrown
Finished == pc \in {"returned", "thrown"}

(***************************************************************************)
(* Properties of getFns.                                                   *)
(***************************************************************************)
\* C1: when every requested name and every name reachable from one exists
\* in the registry, getFns returns a string that contains the whole source
\* text of every requested name and of every name reachable from one.
C1_ContainsClosure ==
  (Finished /\ AllRegistered) =>
    /\ pc = "returned"
    /\ \A name \in Needed : Occurrences(result, wgslFns[name]) # {}

\* a call returned the texts of a requested name, of a dependency of it and
\* of a dependency of that dependency
C1_Witness ==
  /\ pc = "returned"
  /\ AllRegistered
  /\ \E x \in Range(functionNames) : \E y \in Declared(x) : \E z \in Declared(y) :
       /\ Cardinality({x, y, z}) = 3
       /\ z \notin Declared(x)
       /\ Occurrences(result, wgslFns[z]) # {}

\* C2: for an acyclic dependency graph, whenever an emitted function p
\* declares a dependency on q, the text of q starts strictly before the
\* text of p in the returned string.
C2_DependencyFirst ==
  (pc = "returned" /\ Acyclic) =>
    \A p \in Needed : \A q \in Declared(p) :
      /\ Occurrences(result, wgslFns[q]) # {}
      /\ Occurrences(result, wgslFns[p]) # {}
      /\ FirstIndex(result, wgslFns[q]) < FirstIndex(result, wgslFns[p])

\* a call returned, in an acyclic graph, for two requested names of which
\* the second is a dependency of the first and has a dependency itself
C2_Witness ==
  /\ pc = "returned"
  /\ Acyclic
  /\ Len(functionNames) = 2
  /\ functionNames[1] # functionNames[2]
  /\ functionNames[2] \in Reachable(functionNames[1])
  /\ Declared(functionNames[2]) # {}

\* C3: a dependency shared by two requested names occurs exactly once in
\* the returned string.
C3_SharedOnce ==
  pc = "returned" =>
    \A x \in 1..Len(functionNames) : \A y \in 1..Len(functionNames) :
      x # y =>
        \A d \in Reachable(functionNames[x]) \cap Reachable(functionNames[y]) :
          Cardinality(Occurrences(result, wgslFns[d])) = 1

\* a call returned for two different requested names that share a
\* dependency
C3_Witness ==
  /\ pc = "returned"
  /\ Len(functionNames) = 2
  /\ functionNames[1] # functionNames[2]
  /\ \E d \in Reachable(functionNames[1]) \cap Reachable(functionNames[2]) :
       /\ d \notin Range(functionNames)
       /\ Cardinality(Occurrences(result, wgslFns[d])) = 1

\* C4 as stated: when a requested name is absent from the registry, getFns
\* throws 'WGSL function "<name>" not found' with <name> an absent requested
\* name, and returns no string.
C4_NamesRequested ==
  (Finished /\ MissingRequested # {}) =>
    /\ pc = "thrown"
    /\ result = <<>>
    /\ error \in {NotFound(name) : name \in MissingRequested}

\* C4 amended: when a requested name is absent from the registry, getFns
\* throws 'WGSL function "<name>" not found' and returns no string; <name>
\* is an absent declared dependency of a needed function if there is one,
\* and the first absent requested name otherwise.
C4_ThrowsNotFound ==
  (Finished /\ MissingRequested # {}) =>
    /\ pc = "thrown"
    /\ result = <<>>
    /\ IF MissingDeps # {}
       THEN error \in {NotFound(name) : name \in MissingDeps}
       ELSE \E x \in 1..Len(functionNames) :
              /\ Falsy(functionNames[x])
              /\ \A y \in 1..(x - 1) : ~Falsy(functionNames[y])
              /\ error = NotFound(functionNames[x])

\* a call threw for an absent name requested after a valid one, whose text
\* had already been pushed
C4_Witness ==
  /\ pc = "thrown"
  /\ Len(functionNames) = 2
  /\ ~Falsy(functionNames[1])
  /\ Falsy(functionNames[2])
  /\ functions # <<>>
  /\ MissingDeps = {}
  /\ error = NotFound(functionNames[2])

\* C5: when a needed function declares a dependency that is absent from
\* the registry, getFns throws an error that names an absent declared
\* dependency; the call never returns a string without it.
C5_MissingDependencyFails ==
  (Finished /\ MissingDeps # {}) =>
    /\ pc = "thrown"
    /\ error \in {NotFound(name) : name \in MissingDeps}

\* a call threw for an absent name that was not requested but declared by
\* a dependency of the requested function
C5_Witness ==
  /\ pc = "thrown"
  /\ Len(functionNames) = 1
  /\ \E d \in MissingDeps :
       /\ error = NotFound(d)
       /\ d \notin Range(functionNames)
       /\ d \notin Declared(functionNames[1])

\* C6: getFns([]) returns the empty string and throws nothing.
C6_EmptyRequest ==
  (Finished /\ functionNames = <<>>) => (pc = "returned" /\ result = <<>>)

\* a call with the empty list returned on a registry that has functions
C6_Witness ==
  /\ pc = "returned"
  /\ functionNames = <<>>
  /\ DOMAIN wgslFns # {}

\* where the n-th text of list starts in the string that holds the texts
\* of list with two characters between consecutive texts
RECURSIVE StartOf(_, _)
StartOf(list, n) ==
  IF n = 1 THEN 1 ELSE StartOf(list, n - 1) + Len(list[n - 1]) + 2

\* C7: the returned string is the pushed texts in order with "\n\n"
\* between consecutive texts and nothing before, after or in place of them.
C7_JoinedByBlankLine ==
  pc = "returned" =>
    LET n == Len(functions)
    IN  /\ Len(result) = IF n = 0 THEN 0
                         ELSE StartOf(functions, n) + Len(functions[n]) - 1
        /\ \A x \in 1..n :
             SubSeq(result, StartOf(functions, x),
                    StartOf(functions, x) + Len(functions[x]) - 1) = functions[x]
        /\ \A x \in 1..(n - 1) :
             /\ result[StartOf(functions, x + 1) - 2] = "\n"
             /\ result[StartOf(functions, x + 1) - 1] = "\n"

\* a call returned three texts
C7_Witness ==
  /\ pc = "returned"
  /\ Len(functions) = 3
  /\ Len(result) = Len(functions[1]) + Len(functions[2]) + Len(functions[3]) + 4

\* the needed names from name on form a chain: every one has a text and
\* declares at most one dependency, and none reaches itself
IsChain(name) ==
  \A link \in Closure({name}) :
    /\ ~Falsy(link)
    /\ Len(DeclaredList(link)) <= 1
    /\ link \notin Reachable(link)

\* the texts of a chain from the deepest dependency to name
RECURSIVE ChainText(_)
ChainText(name) ==
  IF DeclaredList(name) = <<>> THEN wgslFns[name]
  ELSE ChainText(DeclaredList(name)[1]) \o <<"\n", "\n">> \o wgslFns[name]

\* C8: for a chain f1 -> f2 -> ... -> fn, getFns([f1]) returns the texts
\* from fn to f1 joined by "\n\n"; for f1 -> f2 -> f3 that is
\* sourceOf(f3) + "\n\n" + sourceOf(f2) + "\n\n" + sourceOf(f1).
C8_ChainDeepestFirst ==
  (Finished /\ Len(functionNames) = 1) =>
    (IsChain(functionNames[1]) =>
       /\ pc = "returned"
       /\ result = ChainText(functionNames[1]))

\* a call returned for f1 with f1 -> f2 -> f3
C8_Witness ==
  /\ pc = "returned"
  /\ Len(functionNames) = 1
  /\ \E f2 \in Names : \E f3 \in Names :
       /\ DeclaredList(functionNames[1]) = <<f2>>
       /\ DeclaredList(f2) = <<f3>>
       /\ DeclaredList(f3) = <<>>
       /\ Cardinality({functionNames[1], f2, f3}) = 3
       /\ result = wgslFns[f3] \o <<"\n", "\n">> \o wgslFns[f2]
                   \o <<"\n", "\n">> \o wgslFns[functionNames[1]]

\* the texts of the needed names
NeededTexts == {wgslFns[name] : name \in Needed \cap DOMAIN wgslFns}

\* C9: every text pushed is the text of a needed name, the text of a
\* registry entry that is not needed does not occur in the returned string,
\* and for one requested name without dependencies the returned string is
\* the text of that name.
C9_OnlyNeeded ==
  pc = "returned" =>
    /\ Range(functions) \subseteq NeededTexts
    /\ \A name \in DOMAIN wgslFns :
         wgslFns[name] \notin NeededTexts => Occurrences(result, wgslFns[name]) = {}
    /\ (Len(functionNames) = 1 /\ DeclaredList(functionNames[1]) = <<>>) =>
         result = wgslFns[functionNames[1]]

\* a call returned for one name without dependencies on a registry that
\* has two other functions, one of which depends on the requested one
C9_Witness ==
  /\ pc = "returned"
  /\ Len(functionNames) = 1
  /\ DeclaredList(functionNames[1]) = <<>>
  /\ result = wgslFns[functionNames[1]]
  /\ Cardinality({wgslFns[name] : name \in DOMAIN wgslFns}) = 3
  /\ \E other \in DOMAIN wgslFns : functionNames[1] \in Declared(other)

NoRepeat(list) ==
  \A p \in 1..Len(list) : \A q \in 1..Len(list) : list[p] = list[q] => p = q

\* the declared-dependency graph has a cycle among the needed names
Cyclic == \E name \in Needed : name \in Reachable(name)

\* the sum of weight[x] for x in S
RECURSIVE SumOver(_, _)
SumOver(S, weight) ==
  IF S = {} THEN 0
  ELSE LET name == CHOOSE x \in S : TRUE
       IN  weight[name] + SumOver(S \ {name}, weight)

\* the declared dependencies of every function of the registry
Graph == [name \in DOMAIN wgslFns |-> DeclaredList(name)]

\* the dependencies that name declares in graph
DeclaredIn(graph, name) == IF name \in DOMAIN graph THEN graph[name] ELSE <<>>

\* S and every name reachable from S in graph
RECURSIVE ClosureIn(_, _)
ClosureIn(graph, S) ==
  LET T == S \cup UNION {Range(DeclaredIn(graph, name)) : name \in S}
  IN  IF T = S THEN S ELSE ClosureIn(graph, T)

\* the steps resolveDependencies(name) takes when called by
\* resolveAllDependencies: the call itself, and for every name reachable
\* from name one step per declared dependency and one to return
ResolveSteps(graph, name) ==
  LET links == ClosureIn(graph, {name})
  IN  SumOver(links, [link \in links |-> Len(DeclaredIn(graph, link)) + 1]) + 1

\* the steps of a call that returns: the resolution of every requested
\* name, the building of the list of names, one lookup per name of the
\* list and the return
StepBound ==
  LET graph == Graph
      positions == 1..Len(functionNames)
      needed == ClosureIn(graph, Range(functionNames))
      deps == UNION {Range(DeclaredIn(graph, name)) : name \in needed}
      resolution == [p \in positions |-> ResolveSteps(graph, functionNames[p])]
      extra == [p \in positions |-> IF functionNames[p] \in deps THEN 0 ELSE 1]
  IN  SumOver(positions, resolution) + 1
      + Cardinality(deps) + SumOver(positions, extra) + 1

\* C11: a call never takes more steps than a number fixed by the registry
\* and the request (so it ends, cycles and self-dependencies included), it
\* always has a next step until it has returned or thrown, it takes exactly
\* that number of steps when it returns, and within one resolveDependencies
\* call made by resolveAllDependencies no name has its dependencies fetched
\* twice.
C11_Terminates ==
  /\ pc # "idle" => steps <= StepBound
  /\ pc = "resolve" => stack # <<>>
  /\ pc = "returned" => steps = StepBound
  /\ \A n \in 1..Len(expanded) : NoRepeat(expanded[n])

\* a call finished after its resolution went round a cycle of three names
\* that each require themselves as well
C11_Witness ==
  /\ Finished
  /\ \E x \in Needed : \E y \in Needed : \E z \in Needed :
       /\ Cardinality({x, y, z}) = 3
       /\ x \in Declared(x)
       /\ y \in Declared(x)
       /\ z \in Declared(y)
       /\ x \in Declared(z)
  /\ \E n \in 1..Len(expanded) : Len(expanded[n]) = 3

\* the needed names that lie on a cycle of declared dependencies
OnCycle == {name \in Needed : name \in Reachable(name)}

\* C12: when the needed names hold a cycle, a self-dependency included, and
\* every needed name has a text, getFns returns and the text of every
\* member of the cycle occurs exactly once in the returned string.
C12_CycleOnce ==
  (Finished /\ AllRegistered /\ OnCycle # {}) =>
    /\ pc = "returned"
    /\ \A name \in OnCycle : Cardinality(Occurrences(result, wgslFns[name])) = 1

\* a call returned for a name that is not on a cycle and requires a cycle
\* of two other names
C12_Witness ==
  /\ pc = "returned"
  /\ AllRegistered
  /\ Len(functionNames) = 1
  /\ functionNames[1] \notin OnCycle
  /\ Cardinality(OnCycle) = 2
  /\ Cardinality({wgslFns[name] : name \in OnCycle}) = 2
  /\ \A name \in OnCycle : Cardinality(Occurrences(result, wgslFns[name])) = 1

\* the needed names that have no text
Missing == {name \in Needed : Falsy(name)}

\* the items of a walk: a requested name, a declared dependency, and a
\* requested name that is met once its dependencies were walked
Roots(names) == [n \in 1..Len(names) |-> [name |-> names[n], kind |-> "root"]]

Deps(names) == [n \in 1..Len(names) |-> [name |-> names[n], kind |-> "dep"]]

\* The names in the order a depth-first walk meets them: the items of todo
\* are walked in order, a name that was not visited is followed by its
\* declared dependencies in declared order.  A dependency is met when the
\* walk comes to it; a requested name is met when the walk comes to it
\* ("before"), after its dependencies ("after"), or not by the walk ("last").
RECURSIVE Walk(_, _, _)
Walk(todo, visited, when) ==
  IF todo = <<>> THEN <<>>
  ELSE LET item == Head(todo)
           below == IF item.name \in visited THEN <<>>
                    ELSE Deps(DeclaredList(item.name))
           after == IF item.kind = "root" /\ when = "after"
                    THEN <<[name |-> item.name, kind |-> "met"]>>
                    ELSE <<>>
           met == IF item.kind = "root" /\ when # "before" THEN <<>> ELSE <<item.name>>
       IN  IF item.kind = "met" THEN <<item.name>> \o Walk(Tail(todo), visited, when)
           ELSE met \o Walk(below \o after \o Tail(todo), visited \cup {item.name}, when)

\* the first name of list that has no text (there is one)
FirstMissing(list) ==
  list[CHOOSE n \in 1..Len(list) :
         /\ Falsy(list[n])
         /\ \A m \in 1..(n - 1) : ~Falsy(list[m])]

\* C14 as stated: when several needed names are missing, the error names
\* the first missing name that a depth-first walk of the requested names
\* in request order meets, a requested name being met before or after its
\* own dependencies.
C14_FirstMetInTraversal ==
  (Finished /\ Cardinality(Missing) >= 2) =>
    /\ pc = "thrown"
    /\ error \in {NotFound(FirstMissing(Walk(Roots(functionNames), {}, "before"))),
                  NotFound(FirstMissing(Walk(Roots(functionNames), {}, "after")))}

\* C14 amended: when several needed names are missing, the error names one
\* of them: the first missing name among the declared dependencies in the
\* order a depth-first walk of the requested names meets them, and if no
\* declared dependency is missing the first missing requested name.
C14_FirstLookedUp ==
  (Finished /\ Cardinality(Missing) >= 2) =>
    /\ pc = "thrown"
    /\ error = NotFound(FirstMissing(Walk(Roots(functionNames), {}, "last")
                                     \o functionNames))

\* a call threw for a missing dependency of the second requested name
\* while the first requested name is missing too
C14_Witness ==
  /\ pc = "thrown"
  /\ Len(functionNames) = 2
  /\ Falsy(functionNames[1])
  /\ ~Falsy(functionNames[2])
  /\ \E d \in Declared(functionNames[2]) :
       /\ Falsy(d)
       /\ d # functionNames[1]
       /\ error = NotFound(d)

\* the texts of names in order, a text that occurred before left out
RECURSIVE FirstTexts(_)
FirstTexts(names) ==
  IF names = <<>> THEN <<>>
  ELSE LET before == FirstTexts(SubSeq(names, 1, Len(names) - 1))
           fn == wgslFns[names[Len(names)]]
       IN  IF Includes(before, fn) THEN before ELSE Append(before, fn)

\* C15: the fragments pushed are, character for character, the registry
\* texts of the names looked up so far, in lookup order and each text once;
\* the returned string holds each of them unchanged at its place, the magic
\* comment of a text included.
C15_Verbatim ==
  pc \in {"emit", "returned"} =>
    LET texts == FirstTexts(SubSeq(allFunctionNames, 1, j - 1))
    IN  /\ functions = texts
        /\ pc = "returned" =>
              \A n \in 1..Len(texts) :
                /\ SubSeq(result, StartOf(texts, n),
                          StartOf(texts, n) + Len(texts[n]) - 1) = texts[n]
                /\ StartsWithAt(texts[n], 1, MagicPrefix) =>
                     StartsWithAt(result, StartOf(texts, n), MagicPrefix)

\* a call returned two texts, the second with a magic comment that is in
\* the returned string
C15_Witness ==
  /\ pc = "returned"
  /\ Len(functions) = 2
  /\ StartsWithAt(functions[2], 1, MagicPrefix)
  /\ functions[2] = wgslFns[functionNames[1]]
  /\ StartsWithAt(result, Len(functions[1]) + 3, MagicPrefix \o <<" ">> \o RequiresKeyword)

\* C16: no step of a call, whether the call returns or throws, changes the
\* registry: every name keeps its text and no name is added or removed,
\* from one call to the next as well.
C16_RegistryUnchanged == [][wgslFns' = wgslFns]_vars

\* a call that threw was followed by a call that returned texts
C16_Witness ==
  /\ pc = "returned"
  /\ functions # <<>>
  /\ first # <<>>
  /\ first[1].threw

\* resolveAllDependencies has returned its list to getFns
Resolved == pc \in {"emit", "returned", "thrown"}

\* C17 as stated: the list returned by resolveAllDependencies never holds
\* a requested name.
C17_NoRequestedName ==
  Resolved => Range(dependencies) \cap Range(functionNames) = {}

\* C17 amended: the list returned by resolveAllDependencies holds exactly
\* the names reachable from a requested name through one or more declared
\* dependencies; a requested name is in the list exactly when it is such a
\* name, as a dependency of another requested name or on a cycle.
C17_ReachableNames ==
  Resolved =>
    /\ Range(dependencies) = UNION {Reachable(name) : name \in Range(functionNames)}
    /\ \A name \in Range(functionNames) :
         name \in Range(dependencies) <=>
           \E other \in Range(functionNames) : name \in Reachable(other)

\* resolveAllDependencies returned a list that holds the second requested
\* name, a dependency of the first, and not the first
C17_Witness ==
  /\ Resolved
  /\ Len(functionNames) = 2
  /\ functionNames[2] \in Declared(functionNames[1])
  /\ Includes(dependencies, functionNames[2])
  /\ ~Includes(dependencies, functionNames[1])

\* C18: the Set of resolveAllDependencies and the list it returns hold no
\* name twice, whatever the request and the registry: shared dependencies,
\* cycles, names requested twice.
C18_NoDuplicateNames ==
  /\ NoRepeat(allDeps)
  /\ Resolved => NoRepeat(dependencies)

\* resolveAllDependencies returned a list for two requested names that
\* reach the same two dependencies
C18_Witness ==
  /\ Resolved
  /\ Len(functionNames) = 2
  /\ functionNames[1] # functionNames[2]
  /\ Cardinality(Reachable(functionNames[1]) \cap Reachable(functionNames[2])) = 2
  /\ Len(dependencies) >= 2

\* the resolveDependencies call made by resolveAllDependencies is about to
\* return its list
Returning ==
  /\ pc = "resolve"
  /\ Len(stack) = 1
  /\ stack[1].k > Len(stack[1].deps)

\* C19: the list that resolveDependencies(name) returns for a single name
\* holds each name at most once, also when two direct dependencies of the
\* name share a dependency.
C19_NoDuplicateInOne ==
  Returning => NoRepeat(stack[1].allDeps)

\* how many times name was expanded by the resolveDependencies calls that
\* the running resolveAllDependencies call has made
RECURSIVE Expansions(_, _)
Expansions(lists, name) ==
  IF lists = <<>> THEN 0
  ELSE Cardinality({n \in 1..Len(Head(lists)) : Head(lists)[n] = name})
       + Expansions(Tail(lists), name)

\* the names that two different requested names both reach
SharedByRequested ==
  UNION {Reachable(functionNames[x]) \cap Reachable(functionNames[y]) :
           <<x, y>> \in {pair \in (1..Len(functionNames)) \X (1..Len(functionNames)) :
                           functionNames[pair[1]] # functionNames[pair[2]]}}

\* C20 as stated: one visited set serves all the requested names of a
\* resolveAllDependencies call, so a dependency shared by two requested
\* names is expanded at most once during the call.
C20_SharedVisited ==
  \A d \in SharedByRequested : Expansions(expanded, d) <= 1

\* C20 amended: every requested name is resolved with a visited set of
\* its own: the resolveDependencies call made for it expands the name and
\* every name reachable from it exactly once, whatever the calls made for
\* the requested names before it expanded, so a dependency shared by two
\* requested names is expanded once for each of them.
C20_VisitedPerRequestedName ==
  /\ \A n \in 1..Len(expanded) :
       /\ NoRepeat(expanded[n])
       /\ Range(expanded[n]) \subseteq Closure({functionNames[n]})
       /\ (n < i \/ Resolved) => Range(expanded[n]) = Closure({functionNames[n]})
  /\ Resolved =>
       \A d \in SharedByRequested :
         Expansions(expanded, d)
           = Cardinality({n \in 1..Len(functionNames) : d \in Closure({functionNames[n]})})

\* resolveAllDependencies returned after it expanded a dependency of two
\* different requested names once for each of them
C20_Witness ==
  /\ Resolved
  /\ Len(functionNames) = 2
  /\ \E d \in SharedByRequested :
       /\ d \notin Range(functionNames)
       /\ Includes(expanded[1], d)
       /\ Includes(expanded[2], d)
       /\ Expansions(expanded, d) = 2

(***************************************************************************)
(* Properties of the order of the output.                                  *)
(***************************************************************************)
\* the least number of the set S
Least(S) == CHOOSE p \in S : \A q \in S : p <= q

\* the positions of the request that hold a name resolveAllDependencies
\* did not return
Remaining == {p \in 1..Len(functionNames) : ~Includes(dependencies, functionNames[p])}

\* the n-th smallest element of the set of numbers S
Nth(S, n) == CHOOSE p \in S : Cardinality({q \in S : q < p}) = n - 1

\* no two names that are looked up have the same text
NoCopies ==
  \A x \in Range(allFunctionNames) : \A y \in Range(allFunctionNames) :
    (x # y /\ ~Falsy(x) /\ ~Falsy(y)) => wgslFns[x] # wgslFns[y]

\* C21: the names are looked up in this order: the names returned by
\* resolveAllDependencies as returned, then the requested names that are
\* not among them, in request order; the texts are in that order in the
\* returned string, each where its name is looked up first, so the
\* requested names that are no dependency come last, in request order.
C21_LookupOrder ==
  Resolved =>
    /\ Len(allFunctionNames) = Len(dependencies) + Cardinality(Remaining)
    /\ \A n \in 1..Len(dependencies) : allFunctionNames[n] = dependencies[n]
    /\ \A n \in 1..Cardinality(Remaining) :
         allFunctionNames[Len(dependencies) + n] = functionNames[Nth(Remaining, n)]
    /\ (pc = "returned" /\ NoCopies) =>
         \A k \in 1..Len(allFunctionNames) : \A l \in 1..Len(allFunctionNames) :
           (/\ k < l
            /\ \A n \in 1..(l - 1) : allFunctionNames[n] # allFunctionNames[l]) =>
             FirstIndex(result, wgslFns[allFunctionNames[k]])
               < FirstIndex(result, wgslFns[allFunctionNames[l]])

\* a call returned for two requested names that are no dependencies, the
\* first of which has a dependency: dependency, first name, second name
C21_Witness ==
  /\ pc = "returned"
  /\ NoCopies
  /\ Len(functionNames) = 2
  /\ Len(dependencies) = 1
  /\ Remaining = {1, 2}
  /\ functionNames[1] # functionNames[2]
  /\ allFunctionNames = <<dependencies[1], functionNames[1], functionNames[2]>>
  /\ Len(functions) = 3

\* the positions of the names looked up so far whose text is fn
LookedUpWith(fn) == {k \in 1..(j - 1) : wgslFns[allFunctionNames[k]] = fn}

\* the number of different texts among the first k names looked up
DistinctTexts(k) == Cardinality({wgslFns[allFunctionNames[n]] : n \in 1..k})

\* C22: when two different names that are looked up have the same text, the
\* text is pushed once, at the place of the first of the names, and the
\* returned string has it once, there; the texts pushed by one call are
\* pairwise different.
C22_SameTextOnce ==
  pc \in {"emit", "returned"} =>
    /\ \A m \in 1..Len(functions) : \A n \in 1..Len(functions) :
         m # n => functions[m] # functions[n]
    /\ \A k \in 1..(j - 1) : \A l \in 1..(j - 1) :
         (/\ allFunctionNames[k] # allFunctionNames[l]
          /\ wgslFns[allFunctionNames[k]] = wgslFns[allFunctionNames[l]]) =>
           LET fn == wgslFns[allFunctionNames[k]]
               at == DistinctTexts(Nth(LookedUpWith(fn), 1))
           IN  /\ {n \in 1..Len(functions) : functions[n] = fn} = {at}
               /\ pc = "returned" =>
                    Occurrences(result, fn) = {StartOf(functions, at)}

\* a call returned for two requested names with the same text and a third
\* text after it
C22_Witness ==
  /\ pc = "returned"
  /\ Len(allFunctionNames) = 3
  /\ Len(functions) = 2
  /\ allFunctionNames[1] # allFunctionNames[3]
  /\ wgslFns[allFunctionNames[1]] = wgslFns[allFunctionNames[3]]
  /\ functions = <<wgslFns[allFunctionNames[1]], wgslFns[allFunctionNames[2]]>>

\* no name of the list is reachable from another name of the list
Independent(list) ==
  \A m \in 1..Len(list) : \A n \in 1..Len(list) :
    list[m] # list[n] => list[n] \notin Reachable(list[m])

\* the first position of list that holds x
PositionIn(list, x) == Least({n \in 1..Len(list) : list[n] = x})

\* C24: when the one requested function declares several dependencies, two
\* different names at least, none of which depends on another, the
\* dependencies are looked up in the order in which the declaration names
\* them first and before the function, and their texts are in the returned
\* string in that order, a text shared by two of them at the place of the
\* first, all before the text of the function.
C24_DeclaredOrder ==
  (Resolved /\ Len(functionNames) = 1) =>
    LET fn == functionNames[1]
        deps == DeclaredList(fn)
    IN  (Cardinality(Range(deps)) > 1 /\ Independent(deps)) =>
          /\ \A n \in 1..Len(deps) :
               /\ Includes(allFunctionNames, deps[n])
               /\ PositionIn(allFunctionNames, deps[n]) < PositionIn(allFunctionNames, fn)
               /\ pc = "returned" =>
                    FirstIndex(result, wgslFns[deps[n]]) < FirstIndex(result, wgslFns[fn])
          /\ \A m \in 1..Len(deps) : \A n \in 1..Len(deps) :
               (m < n /\ \A q \in 1..(n - 1) : deps[q] # deps[n]) =>
                 /\ PositionIn(allFunctionNames, deps[m]) < PositionIn(allFunctionNames, deps[n])
                 /\ (pc = "returned"
                       /\ \A q \in 1..(n - 1) : wgslFns[deps[q]] # wgslFns[deps[n]]) =>
                      FirstIndex(result, wgslFns[deps[m]]) < FirstIndex(result, wgslFns[deps[n]])

\* a call returned for one function that declares two different
\* dependencies, one of which has a dependency of its own: three texts are
\* ahead of the text of the function
C24_Witness ==
  /\ pc = "returned"
  /\ Len(functionNames) = 1
  /\ Len(DeclaredList(functionNames[1])) = 2
  /\ DeclaredList(functionNames[1])[1] # DeclaredList(functionNames[1])[2]
  /\ Independent(DeclaredList(functionNames[1]))
  /\ Len(functions) = 4
  /\ functions[2] = wgslFns[DeclaredList(functionNames[1])[1]]
  /\ functions[3] = wgslFns[DeclaredList(functionNames[1])[2]]
  /\ functions[4] = wgslFns[functionNames[1]]

\* the positions of the lookup order whose name had its own text pushed:
\* no name looked up before has the same text
Pushed ==
  {k \in 1..Len(allFunctionNames) :
     \A l \in 1..(k - 1) :
       wgslFns[allFunctionNames[l]] # wgslFns[allFunctionNames[k]]}

\* C25: also when the needed names hold a cycle, a name that is not on a
\* cycle is looked up after each of its direct dependencies, and when its
\* text is pushed the text of each direct dependency is in the returned
\* string before it; only the members of a cycle can come before one of
\* their dependencies.
C25_OffCycleAfterDependencies ==
  Resolved =>
    \A k \in 1..Len(allFunctionNames) :
      LET fn == allFunctionNames[k]
      IN  fn \notin Reachable(fn) =>
            \A dep \in Declared(fn) :
              /\ Includes(allFunctionNames, dep)
              /\ PositionIn(allFunctionNames, dep) < k
              /\ (pc = "returned" /\ k \in Pushed) =>
                   FirstIndex(result, wgslFns[dep]) < FirstIndex(result, wgslFns[fn])

\* a call returned for a function that is on no cycle and requires a
\* member of a cycle: the members come first, one of them before its own
\* dependency, and the function last
C25_Witness ==
  /\ pc = "returned"
  /\ Len(functionNames) = 1
  /\ functionNames[1] \notin Reachable(functionNames[1])
  /\ \E dep \in Declared(functionNames[1]) :
       /\ dep \in Reachable(dep)
       /\ \E other \in Declared(dep) :
            FirstIndex(result, wgslFns[dep]) < FirstIndex(result, wgslFns[other])
  /\ Len(functions) = 3
  /\ functions[3] = wgslFns[functionNames[1]]

\* the list without the later occurrences of a name
RECURSIVE WithoutRepetition(_)
WithoutRepetition(list) ==
  IF list = <<>> THEN <<>>
  ELSE LET before == WithoutRepetition(SubSeq(list, 1, Len(list) - 1))
           last == list[Len(list)]
       IN  IF last \in Range(before) THEN before ELSE Append(before, last)

\* C26: a call whose request list repeats a name has the outcome of the
\* call for the list without the repetition, the same string or the same
\* error, and when it returns the text of the repeated name was pushed
\* exactly once.
C26_RepetitionIgnored ==
  /\ (Finished /\ first # <<>>) =>
       (WithoutRepetition(first[1].functionNames) = WithoutRepetition(functionNames) =>
          /\ first[1].threw = (pc = "thrown")
          /\ first[1].value = IF pc = "thrown" THEN error ELSE result)
  /\ pc = "returned" =>
       \A p \in 1..Len(functionNames) : \A q \in 1..Len(functionNames) :
         (p # q /\ functionNames[p] = functionNames[q]) =>
           Cardinality({n \in 1..Len(functions) :
                          functions[n] = wgslFns[functionNames[p]]}) = 1

\* a call that names one function twice returned the string that the first
\* call returned for the function named once, its dependency ahead of it
C26_Witness ==
  /\ pc = "returned"
  /\ first # <<>>
  /\ Len(first[1].functionNames) = 1
  /\ functionNames = first[1].functionNames \o first[1].functionNames
  /\ ~first[1].threw
  /\ result = first[1].value
  /\ Len(functions) = 2
  /\ functions[2] = wgslFns[functionNames[1]]

\* the two lists hold the same names, each as many times
IsPermutation(list, other) ==
  /\ Len(list) = Len(other)
  /\ \A x \in Range(list) \cup Range(other) :
       Cardinality({n \in 1..Len(list) : list[n] = x})
         = Cardinality({n \in 1..Len(other) : other[n] = x})

\* every needed function comes after its declared dependencies in s
DependencyFirstIn(s) ==
  \A name \in Needed : \A dep \in Declared(name) :
    /\ dep \in DOMAIN wgslFns
    /\ Occurrences(s, wgslFns[dep]) # {}
    /\ Occurrences(s, wgslFns[name]) # {}
    /\ FirstIndex(s, wgslFns[dep]) < FirstIndex(s, wgslFns[name])

\* C27: a call whose request list is a permutation of the request list of
\* the first call, all requested names being registered, returns when the
\* first call returned, and then the two calls pushed the same set of
\* texts, as many; when no needed name is on a cycle each of the two
\* returned strings has every function after its dependencies.
C27_PermutationSameSet ==
  (/\ Finished
   /\ first # <<>>
   /\ IsPermutation(first[1].functionNames, functionNames)
   /\ \A n \in 1..Len(functionNames) : ~Falsy(functionNames[n])) =>
    /\ first[1].threw = (pc = "thrown")
    /\ pc = "returned" =>
         /\ Range(first[1].functions) = Range(functions)
         /\ Len(first[1].functions) = Len(functions)
         /\ Acyclic =>
              /\ DependencyFirstIn(result)
              /\ DependencyFirstIn(first[1].value)

\* a call for the two names of the first call in the other order returned
\* another string with the same three texts, the shared dependency first
C27_Witness ==
  /\ pc = "returned"
  /\ first # <<>>
  /\ Len(functionNames) = 2
  /\ first[1].functionNames = <<functionNames[2], functionNames[1]>>
  /\ functionNames[1] # functionNames[2]
  /\ result # first[1].value
  /\ Len(functions) = 3
  /\ Range(first[1].functions) = Range(functions)
  /\ functions[1] = first[1].functions[1]
  /\ Acyclic

\* C28: resolveDependencies and resolveAllDependencies raise no error: a
\* name without a text has no dependencies, a declared dependency without
\* a text is in the returned list as any other, and a call throws only
\* once the resolution is over, in the lookup loop of getFns, for the name
\* it is looking up.
C28_ResolutionNeverThrows ==
  /\ pc \in {"resolveAll", "resolve"} => error = <<>>
  /\ pc = "resolve" =>
       \A n \in 1..Len(stack) :
         stack[n].functionName \notin DOMAIN wgslFns => stack[n].deps = <<>>
  /\ Resolved =>
       /\ i = Len(functionNames) + 1
       /\ stack = <<>>
       /\ \A name \in Needed : \A dep \in Declared(name) :
            dep \notin DOMAIN wgslFns => Includes(dependencies, dep)
  /\ pc = "thrown" =>
       /\ j \in 1..Len(allFunctionNames)
       /\ Falsy(allFunctionNames[j])
       /\ error = NotFound(allFunctionNames[j])

\* a call threw in the lookup loop for a declared dependency that is not
\* registered and that the resolution returned after a registered one
C28_Witness ==
  /\ pc = "thrown"
  /\ Len(dependencies) = 2
  /\ dependencies[1] \in DOMAIN wgslFns
  /\ dependencies[2] \notin DOMAIN wgslFns
  /\ j = 2
  /\ Len(functions) = 1
  /\ error = NotFound(dependencies[2])

(***************************************************************************)
(* Properties of the parsing.                                              *)
(***************************************************************************)
\* first position >= p of s that holds neither a space nor a tab
RECURSIVE SkipBlank(_, _)
SkipBlank(s, p) ==
  IF p <= Len(s) /\ s[p] \in {" ", "\t"} THEN SkipBlank(s, p + 1) ELSE p

\* The line of s that starts at position p is a marker line with the
\* keyword and no name after it, and more text follows on later lines.
BareMarkerAt(s, p) ==
  /\ p = 1 \/ s[p - 1] = "\n"
  /\ StartsWithAt(s, p, MagicPrefix)
  /\ LET q == SkipBlank(s, p + Len(MagicPrefix))
     IN  /\ StartsWithAt(s, q, RequiresKeyword)
         /\ LET e == SkipBlank(s, q + Len(RequiresKeyword))
            IN  /\ e <= Len(s)
                /\ s[e] = "\n"
                /\ \E later \in (e + 1)..Len(s) : ~IsSpace(s[later])

\* s has a marker line without names and no other marker line
BareMarker(s) ==
  /\ \E p \in 1..Len(s) : BareMarkerAt(s, p)
  /\ Cardinality(Occurrences(s, MagicPrefix)) = 1

\* C13: a function whose text has a marker line with the keyword and no
\* names, followed by the rest of the text on later lines, has zero
\* dependencies: parsing its text yields the empty list and getFns on that
\* function returns.
C13_BareMarkerNoDependencies ==
  (Finished /\ Len(functionNames) = 1) =>
    IF functionNames[1] \in DOMAIN wgslFns
    THEN BareMarker(wgslFns[functionNames[1]]) =>
           /\ parseDependencies(wgslFns[functionNames[1]]) = <<>>
           /\ pc = "returned"
    ELSE TRUE

\* the positions of s where a line starts
LineStarts(s) == {p \in 1..Len(s) : p = 1 \/ s[p - 1] = "\n"}

\* The position after the keyword when the line of s that starts at p is a
\* marker line: the prefix, blanks, the keyword, and then a blank or the
\* end of the line; 0 when it is not.
AfterKeyword(s, p) ==
  IF ~StartsWithAt(s, p, MagicPrefix) THEN 0
  ELSE LET q == SkipBlank(s, p + Len(MagicPrefix))
           e == q + Len(RequiresKeyword)
       IN  IF ~StartsWithAt(s, q, RequiresKeyword) THEN 0
           ELSE IF e > Len(s) THEN e
           ELSE IF s[e] \in {" ", "\t", "\n"} THEN e
           ELSE 0

\* the words written in s from position p to the end of the line
RECURSIVE WordsOnLine(_, _, _)
WordsOnLine(s, p, word) ==
  LET done == IF word = <<>> THEN <<>> ELSE <<word>>
  IN  IF p > Len(s) THEN done
      ELSE IF s[p] = "\n" THEN done
      ELSE IF s[p] \in {" ", "\t"} THEN done \o WordsOnLine(s, p + 1, <<>>)
      ELSE WordsOnLine(s, p + 1, Append(word, s[p]))

\* the starts of the marker lines of s
MarkerLines(s) == {p \in LineStarts(s) : AfterKeyword(s, p) # 0}

\* the names written on the marker line of s that starts at p
NamesOnLine(s, p) == WordsOnLine(s, AfterKeyword(s, p), <<>>)

\* the names written on the first marker line of s, none without one
NamesOnMarkerLine(s) ==
  IF MarkerLines(s) = {} THEN <<>> ELSE NamesOnLine(s, Least(MarkerLines(s)))

\* C23: the dependencies parsed from the text of a function are the names
\* written on its marker line, from left to right, split at runs of white
\* space with no empty name among them, and the empty list when the text
\* has no marker line.
C23_NamesOnMarkerLine ==
  pc = "resolve" =>
    \A n \in 1..Len(stack) :
      LET name == stack[n].functionName
      IN  IF name \in DOMAIN wgslFns
          THEN wgslFns[name] # <<>> =>
                 stack[n].deps = NamesOnMarkerLine(wgslFns[name])
          ELSE TRUE

\* the starts of the marker lines of s that name a function
NamedMarkerLines(s) == {p \in MarkerLines(s) : NamesOnLine(s, p) # <<>>}

\* C30: when the text of a function has more than one marker line that
\* names functions, its dependencies are the names on the first of these
\* lines and no others; the names of the later marker lines are ignored.
C30_FirstMarkerLineOnly ==
  pc = "resolve" =>
    \A n \in 1..Len(stack) :
      LET name == stack[n].functionName
      IN  IF name \in DOMAIN wgslFns
          THEN Cardinality(NamedMarkerLines(wgslFns[name])) > 1 =>
                 stack[n].deps
                   = NamesOnLine(wgslFns[name], Least(NamedMarkerLines(wgslFns[name])))
          ELSE TRUE

\* the name has no text that can be emitted: it is not registered, or it
\* is registered with the empty string
Unusable(name) == IF name \in DOMAIN wgslFns THEN wgslFns[name] = <<>> ELSE TRUE

\* C29: a name registered with the empty string is handled as a name that
\* is not registered: it has no dependencies, no empty text is pushed, and
\* a call that looks it up throws 'WGSL function "<name>" not found' for
\* the first looked-up name without a text and returns nothing.
C29_EmptyTextNotFound ==
  /\ pc = "resolve" =>
       \A n \in 1..Len(stack) :
         Unusable(stack[n].functionName) => stack[n].deps = <<>>
  /\ <<>> \notin Range(functions)
  /\ (Finished /\ \E n \in 1..Len(allFunctionNames) : Unusable(allFunctionNames[n])) =>
       /\ pc = "thrown"
       /\ result = <<>>
       /\ error = NotFound(allFunctionNames[
                     Least({n \in 1..Len(allFunctionNames) : Unusable(allFunctionNames[n])})])

\* a call for a name registered with the empty string, after a name with a
\* text, threw for that name
C29_Witness ==
  /\ pc = "thrown"
  /\ Len(functionNames) = 2
  /\ ~Unusable(functionNames[1])
  /\ functionNames[2] \in DOMAIN wgslFns
  /\ wgslFns[functionNames[2]] = <<>>
  /\ Len(functions) = 1
  /\ error = NotFound(functionNames[2])

TypeOK ==
  /\ pc \in {"idle", "resolveAll", "resolve", "emit", "returned", "thrown"}
  /\ callsLeft \in 0..MaxCalls
  /\ Len(functionNames) <= MaxReq
====
